---- MODULE Spec2Model ----
(***************************************************************************)
(* cli-artifacts (src/artifacts.py): parse_event_xml, parse_evtx and the   *)
(* filter/summary loop of main, as a state machine.                        *)
(*                                                                         *)
(* Text is a sequence of one-character strings, so that int(), join and    *)
(* slicing are computed character by character.  The Evtx library is the   *)
(* environment: log.records() hands records over one at a time, and what   *)
(* it does at a record whose trailing size is corrupted is a               *)
(* nondeterministic choice (hand it over, end the chunk, or raise).        *)
(***************************************************************************)
EXTENDS Integers, Sequences, FiniteSets, TLC

\* ------------------------------------------------------------------ bounds
MaxRecords == 3
MaxData == 2
MaxLevel == 6

\* --------------------------------------------------------- program constants
MSG_MAX == 200
DEFAULT_LEVEL == 4
DEFAULT_EVENT_ID == 0

\* -------------------------------------------------------------------- text
Rep(c, n) == [i \in 1..n |-> c]

Min(a, b) == IF a < b THEN a ELSE b

DigitChars == <<"0", "1", "2", "3", "4", "5", "6", "7", "8", "9">>

IsDigit(c) == \E d \in 1..10 : DigitChars[d] = c

DigitVal(c) == (CHOOSE d \in 1..10 : DigitChars[d] = c) - 1

RECURSIVE DigitsValue(_)
DigitsValue(s) ==
    IF s = <<>> THEN 0
    ELSE 10 * DigitsValue(SubSeq(s, 1, Len(s) - 1)) + DigitVal(s[Len(s)])

RECURSIVE LStrip(_)
LStrip(s) == IF s # <<>> /\ Head(s) = " " THEN LStrip(Tail(s)) ELSE s

RECURSIVE RStrip(_)
RStrip(s) ==
    IF s # <<>> /\ s[Len(s)] = " " THEN RStrip(SubSeq(s, 1, Len(s) - 1)) ELSE s

\* int(text): surrounding blanks stripped, an optional sign, then decimal
\* digits; anything else (None, "", "abc") raises (ok = FALSE).
PyInt(text) ==
    LET s == RStrip(LStrip(text))
        signed == s # <<>> /\ Head(s) \in {"-", "+"}
        body == IF signed THEN Tail(s) ELSE s
    IN  IF body # <<>> /\ \A i \in 1..Len(body) : IsDigit(body[i])
        THEN [ok |-> TRUE,
              val |-> IF signed /\ Head(s) = "-"
                      THEN 0 - DigitsValue(body) ELSE DigitsValue(body)]
        ELSE [ok |-> FALSE, val |-> 0]

\* ------------------------------------------------------------------ LEVELS
LEVELS_broken == (1 :> "critical") @@ (2 :> "error") @@ (3 :> "warning")
                 @@ (4 :> "info") @@ (0 :> "critical")

LEVELS == (1 :> "critical") @@ (2 :> "error") @@ (3 :> "warning")
          @@ (4 :> "info") @@ (0 :> "info")

DictGet(d, key, default) == IF key \in DOMAIN d THEN d[key] ELSE default

\* --------------------------------------------------------- parse_event_xml
\* A record's XML, as far as parse_event_xml looks at it.  kind is "raise"
\* when record.xml() itself raises, "malformed" when the string is not
\* well-formed XML, "doc" otherwise.  An element is [present, text]; an
\* empty text is Python's None (ElementTree gives None for no text).
NoElem == [present |-> FALSE, text |-> <<>>]

Elem(t) == [present |-> TRUE, text |-> t]

NoEvent == [event_id |-> 0, level |-> "none", timestamp |-> "none",
            provider |-> "none", message |-> <<>>]

Separator == <<" ", "|", " ">>

\* " | ".join(items)
RECURSIVE Join(_)
Join(items) ==
    IF items = <<>> THEN <<>>
    ELSE IF Len(items) = 1 THEN items[1]
    ELSE items[1] \o Separator \o Join(Tail(items))

\* [d.text for d in data_items if d.text]
DataTexts(data) == SelectSeq(data, LAMBDA t : t # <<>>)

Truncate_off_by_one(message) == SubSeq(message, 1, Min(Len(message), MSG_MAX + 1))

\* message[:200] if message else ""
Truncate(message) == SubSeq(message, 1, Min(Len(message), MSG_MAX))

Message(x) == IF x.hasdata THEN Join(DataTexts(x.data)) ELSE <<>>

HasNoSystem_ignored(x) == FALSE

HasNoSystem(x) == ~x.system

\* level_num = int(level_elem.text) if level_elem is not None else 4
LevelNum(x) == IF x.level.present THEN PyInt(x.level.text)
               ELSE [ok |-> TRUE, val |-> DEFAULT_LEVEL]

\* event_id = int(event_id_elem.text) if event_id_elem is not None else 0
EventIdNum(x) == IF x.eventid.present THEN PyInt(x.eventid.text)
                 ELSE [ok |-> TRUE, val |-> DEFAULT_EVENT_ID]

\* The result of parse_event_xml(xml_str): tag "event" with the dict, "none"
\* for a None return, "raise" for an exception other than ET.ParseError.
ParseEventXml(x) ==
    IF x.kind = "malformed" THEN [tag |-> "none", event |-> NoEvent]
    ELSE IF HasNoSystem(x) THEN [tag |-> "none", event |-> NoEvent]
    ELSE IF ~EventIdNum(x).ok \/ ~LevelNum(x).ok
         THEN [tag |-> "raise", event |-> NoEvent]
    ELSE [tag |-> "event",
          event |-> [event_id |-> EventIdNum(x).val,
                     level |-> DictGet(LEVELS, LevelNum(x).val, "info"),
                     timestamp |-> IF x.time.present THEN x.time.attr ELSE "unknown",
                     provider |-> IF x.provider.present THEN x.provider.attr
                                  ELSE "unknown",
                     message |-> Truncate(Message(x))]]

\* ------------------------------------------------------------------- state
VARIABLES
    file,             \* the records of the .evtx file, in file order
    args,             \* argparse result: level, event_id, mode (csv for
                      \* --output, summary for --summary, print otherwise)
    pos,              \* log.records(): number of file records consumed
    stream,           \* what parse_evtx has yielded: [rec, event]
    trace,            \* per record consumed: [rec, outcome], outcome one of
                      \* yield, none, exc (handed over) or cut (the library
                      \* ended the chunk before it)
    pc,               \* main: pull, body, output, counting, done, crashed
    count,
    shown,
    filtered_events,
    level_counts,
    k,                \* index of the summary loop over filtered_events
    emitted,          \* the CSV rows written or the events printed
    total             \* the Total line: filters and the numbers printed

vars == <<file, args, pos, stream, trace, pc, count, shown, filtered_events,
          level_counts, k, emitted, total>>

\* ------------------------------------------------------------------ inputs
RECURSIVE NatStr(_)
NatStr(n) == IF n < 10 THEN <<DigitChars[n + 1]>>
             ELSE NatStr(n \div 10) \o <<DigitChars[(n % 10) + 1]>>

IntStr(n) == IF n < 0 THEN <<"-">> \o NatStr(0 - n) ELSE NatStr(n)

Attr(v) == [present |-> TRUE, attr |-> v]

NoAttrElem == [present |-> FALSE, attr |-> "None"]

XmlDoc(id, lvl, hasdata, data) ==
    [kind |-> "doc", system |-> TRUE, eventid |-> id, level |-> lvl,
     time |-> Attr("2024-01-01T00:00:00Z"), provider |-> Attr("Service"),
     hasdata |-> hasdata, data |-> data]

XmlRaise == [XmlDoc(NoElem, NoElem, FALSE, <<>>) EXCEPT !.kind = "raise"]

XmlMalformed == [XmlDoc(NoElem, NoElem, FALSE, <<>>) EXCEPT !.kind = "malformed"]

XmlNoSystem == [XmlDoc(NoElem, NoElem, FALSE, <<>>) EXCEPT !.system = FALSE]

Rec(intact, newchunk, xml) == [intact |-> intact, newchunk |-> newchunk, xml |-> xml]

NoArgs == [level |-> "None", event_id |-> [given |-> FALSE, val |-> 0],
           mode |-> "print"]

Modes == {"csv", "summary", "print"}

LevelNames == {"critical", "error", "warning", "info"}

SeqsUpTo(S, n) == UNION {[1..m -> S] : m \in 0..n}

\* Corruption family: records that decode, records that do not, and records
\* whose trailing size is corrupted, spread over chunks.
CorruptionXmls ==
    {XmlDoc(Elem(IntStr(100)), Elem(IntStr(2)), FALSE, <<>>),
     XmlDoc(Elem(<<"a", "b", "c">>), Elem(IntStr(2)), FALSE, <<>>),
     XmlNoSystem, XmlMalformed, XmlRaise}

CorruptionRecs ==
    {Rec(TRUE, nc, x) : nc \in BOOLEAN, x \in CorruptionXmls}
    \cup {Rec(FALSE, nc, x) : nc \in BOOLEAN,
          x \in {XmlDoc(Elem(IntStr(100)), Elem(IntStr(2)), FALSE, <<>>), XmlRaise}}

\* At most two chunks: the first record opens one, one later record may open
\* the second.
CorruptionInputs ==
    {[file |-> f, args |-> NoArgs] :
        f \in {g \in SeqsUpTo(CorruptionRecs, MaxRecords) :
                  /\ g # <<>> => g[1].newchunk
                  /\ Cardinality({i \in 1..Len(g) : g[i].newchunk}) <= 2}}

\* Filter family: intact records of one chunk, some of them not decoding,
\* under every combination of filters.
FilterXmls ==
    {XmlDoc(NoElem, NoElem, FALSE, <<>>),
     XmlDoc(Elem(IntStr(100)), Elem(IntStr(1)), FALSE, <<>>),
     XmlDoc(Elem(IntStr(100)), Elem(IntStr(2)), FALSE, <<>>),
     XmlDoc(Elem(IntStr(200)), Elem(IntStr(3)), FALSE, <<>>),
     XmlNoSystem, XmlRaise}

FilterArgs ==
    {[level |-> l, event_id |-> e, mode |-> "csv"] :
        l \in LevelNames \cup {"None"},
        e \in {[given |-> FALSE, val |-> 0]}
              \cup {[given |-> TRUE, val |-> v] : v \in {0, 100, 200}}}

FilterInputs ==
    {[file |-> f, args |-> a] :
        f \in SeqsUpTo({Rec(TRUE, FALSE, x) : x \in FilterXmls}, MaxRecords),
        a \in FilterArgs}

\* Field family: one record, its Level, EventID, attributes and EventData
\* drawn widely.
LevelNums == ((0 - MaxLevel)..MaxLevel) \cup {99}

LevelElems ==
    {Elem(IntStr(n)) : n \in LevelNums}
    \cup {NoElem, Elem(<<>>), Elem(<<"a">>), Elem(<<" ", "3", " ">>),
          Elem(<<"+", "2">>), Elem(<<"-">>)}

DataTextSet ==
    {<<>>, Rep("a", 1), Rep("b", 3), Rep("c", (MSG_MAX \div 2) - 3),
     Rep("d", MSG_MAX \div 2), Rep("e", MSG_MAX - 3), Rep("f", MSG_MAX),
     Rep("g", MSG_MAX + 1)}

FieldXmls ==
    {XmlDoc(Elem(IntStr(100)), l, FALSE, <<>>) : l \in LevelElems}
    \cup {XmlDoc(Elem(IntStr(100)), NoElem, TRUE, d) : d \in SeqsUpTo(DataTextSet, MaxData)}
    \cup {XmlDoc(e, NoElem, FALSE, <<>>) :
             e \in {NoElem, Elem(<<>>), Elem(IntStr(0)), Elem(<<"4", "x">>)}}
    \cup {[XmlDoc(NoElem, NoElem, FALSE, <<>>) EXCEPT !.time = t, !.provider = p] :
             t \in {NoAttrElem, Attr("None")}, p \in {NoAttrElem, Attr("None")}}
    \cup {[XmlNoSystem EXCEPT !.hasdata = TRUE, !.data = <<Rep("a", 1)>>]}

FieldInputs ==
    {[file |-> <<Rec(TRUE, TRUE, x)>>, args |-> [NoArgs EXCEPT !.mode = m]] :
        x \in FieldXmls, m \in Modes}

InitWith(inputs) ==
    /\ \E inp \in inputs : file = inp.file /\ args = inp.args
    /\ pos = 0
    /\ stream = <<>>
    /\ trace = <<>>
    /\ pc = "pull"
    /\ count = 0
    /\ shown = 0
    /\ filtered_events = <<>>
    /\ level_counts = <<>>
    /\ k = 0
    /\ emitted = <<>>
    /\ total = [filters |-> <<>>, line |-> <<>>]

Init == InitWith(CorruptionInputs)

InitFilter == InitWith(FilterInputs)

InitField == InitWith(FieldInputs)

\* --------------------------------------------------------------- parse_evtx
\* event = parse_event_xml(record.xml()), inside the try.
Decode(r) ==
    IF r.xml.kind = "raise" THEN [tag |-> "raise", event |-> NoEvent]
    ELSE ParseEventXml(r.xml)

\* log.records() hands over the next record of the file.
HandsOver == pc = "pull" /\ pos < Len(file)

\* The last record of the chunk that record i lies in.
ChunkEnd(i) ==
    CHOOSE j \in i..Len(file) :
        /\ \A m \in (i + 1)..j : ~file[m].newchunk
        /\ (j < Len(file) => file[j + 1].newchunk)

RecordYield_stops_at_broken ==
    /\ HandsOver
    /\ Decode(file[pos + 1]).tag = "event"
    /\ pos' = pos + 1
    /\ IF file[pos + 1].intact
       THEN /\ stream' = Append(stream, [rec |-> pos + 1,
                                         event |-> Decode(file[pos + 1]).event])
            /\ trace' = Append(trace, [rec |-> pos + 1, outcome |-> "yield"])
            /\ pc' = "body"
       ELSE /\ trace' = Append(trace, [rec |-> pos + 1, outcome |-> "exc"])
            /\ pc' = "output"
            /\ UNCHANGED stream
    /\ UNCHANGED <<file, args, count, shown, filtered_events, level_counts, k, emitted, total>>

RecordYield ==
    /\ HandsOver
    /\ Decode(file[pos + 1]).tag = "event"
    /\ pos' = pos + 1
    /\ stream' = Append(stream, [rec |-> pos + 1, event |-> Decode(file[pos + 1]).event])
    /\ trace' = Append(trace, [rec |-> pos + 1, outcome |-> "yield"])
    /\ pc' = "body"
    /\ UNCHANGED <<file, args, count, shown, filtered_events, level_counts, k, emitted, total>>

RecordNone ==
    /\ HandsOver
    /\ Decode(file[pos + 1]).tag = "none"
    /\ pos' = pos + 1
    /\ trace' = Append(trace, [rec |-> pos + 1, outcome |-> "none"])
    /\ UNCHANGED <<file, args, stream, pc, count, shown, filtered_events,
                   level_counts, k, emitted, total>>

RecordExc_stops ==
    /\ HandsOver
    /\ Decode(file[pos + 1]).tag = "raise"
    /\ pos' = pos + 1
    /\ trace' = Append(trace, [rec |-> pos + 1, outcome |-> "exc"])
    /\ pc' = "output"
    /\ UNCHANGED <<file, args, stream, count, shown, filtered_events,
                   level_counts, k, emitted, total>>

RecordExc ==
    /\ HandsOver
    /\ Decode(file[pos + 1]).tag = "raise"
    /\ pos' = pos + 1
    /\ trace' = Append(trace, [rec |-> pos + 1, outcome |-> "exc"])
    /\ UNCHANGED <<file, args, stream, pc, count, shown, filtered_events,
                   level_counts, k, emitted, total>>

\* The library ends the enumeration of a chunk at a record whose trailing
\* size is corrupted.
ReaderTruncates ==
    /\ HandsOver
    /\ ~file[pos + 1].intact
    /\ pos' = ChunkEnd(pos + 1)
    /\ trace' = trace \o [i \in 1..(ChunkEnd(pos + 1) - pos) |->
                              [rec |-> pos + i, outcome |-> "cut"]]
    /\ UNCHANGED <<file, args, stream, pc, count, shown, filtered_events,
                   level_counts, k, emitted, total>>

\* The library raises out of the iterator: the for statement is outside the
\* try, so the exception leaves parse_evtx and main.
ReaderRaises ==
    /\ HandsOver
    /\ ~file[pos + 1].intact
    /\ pc' = "crashed"
    /\ UNCHANGED <<file, args, pos, stream, trace, count, shown, filtered_events,
                   level_counts, k, emitted, total>>

ReaderEnd ==
    /\ pc = "pull"
    /\ pos = Len(file)
    /\ pc' = "output"
    /\ UNCHANGED <<file, args, pos, stream, trace, count, shown, filtered_events,
                   level_counts, k, emitted, total>>

\* --------------------------------------------------------------------- main
LevelFilter == args.level # "None"

\* "if args.event_id": the truth value of an int or None
EventIdFilter == args.event_id.given /\ args.event_id.val # 0

Keeps(event) ==
    /\ ~(LevelFilter /\ event.level # args.level)
    /\ ~(EventIdFilter /\ event.event_id # args.event_id.val)

LoopBody_counts_kept ==
    /\ pc = "body"
    /\ IF Keeps(stream[Len(stream)].event)
       THEN /\ filtered_events' = Append(filtered_events, stream[Len(stream)].event)
            /\ shown' = shown + 1
            /\ count' = count + 1
       ELSE UNCHANGED <<filtered_events, shown, count>>
    /\ pc' = "pull"
    /\ UNCHANGED <<file, args, pos, stream, trace, level_counts, k, emitted, total>>

LoopBody_shown_all ==
    /\ pc = "body"
    /\ count' = count + 1
    /\ shown' = shown + 1
    /\ IF Keeps(stream[Len(stream)].event)
       THEN filtered_events' = Append(filtered_events, stream[Len(stream)].event)
       ELSE UNCHANGED filtered_events
    /\ pc' = "pull"
    /\ UNCHANGED <<file, args, pos, stream, trace, level_counts, k, emitted, total>>

LoopBody ==
    /\ pc = "body"
    /\ count' = count + 1
    /\ IF Keeps(stream[Len(stream)].event)
       THEN /\ filtered_events' = Append(filtered_events, stream[Len(stream)].event)
            /\ shown' = shown + 1
       ELSE UNCHANGED <<filtered_events, shown>>
    /\ pc' = "pull"
    /\ UNCHANGED <<file, args, pos, stream, trace, level_counts, k, emitted, total>>

\* A row of csv.DictWriter, in the order of fieldnames.
CsvRow(event) ==
    <<event.timestamp, event.level, event.event_id, event.provider, event.message>>

\* The output section: the CSV export, nothing for --summary, or print_event
\* for each kept event.
Output ==
    /\ pc = "output"
    /\ emitted' =
          IF args.mode = "csv"
          THEN [i \in 1..Len(filtered_events) |-> CsvRow(filtered_events[i])]
          ELSE IF args.mode = "summary" THEN <<>>
          ELSE filtered_events
    /\ pc' = "counting"
    /\ UNCHANGED <<file, args, pos, stream, trace, count, shown, filtered_events,
                   level_counts, k, total>>

\* level_counts[lvl] = level_counts.get(lvl, 0) + 1
CountLevel ==
    /\ pc = "counting"
    /\ k < Len(filtered_events)
    /\ LET lvl == filtered_events[k + 1].level
       IN  level_counts' =
               [l \in DOMAIN level_counts \cup {lvl} |->
                   IF l = lvl THEN DictGet(level_counts, lvl, 0) + 1
                   ELSE level_counts[l]]
    /\ k' = k + 1
    /\ UNCHANGED <<file, args, pos, stream, trace, pc, count, shown,
                   filtered_events, emitted, total>>

Filters ==
    (IF LevelFilter THEN <<"level">> ELSE <<>>)
    \o (IF EventIdFilter THEN <<"event_id">> ELSE <<>>)

Summary ==
    /\ pc = "counting"
    /\ k = Len(filtered_events)
    /\ total' = [filters |-> Filters,
                 line |-> IF Filters # <<>> THEN <<shown, count>> ELSE <<count>>]
    /\ pc' = "done"
    /\ UNCHANGED <<file, args, pos, stream, trace, count, shown, filtered_events,
                   level_counts, k, emitted>>

Next ==
    \/ RecordYield
    \/ RecordNone
    \/ RecordExc
    \/ ReaderTruncates
    \/ ReaderRaises
    \/ ReaderEnd
    \/ LoopBody
    \/ Output
    \/ CountLevel
    \/ Summary

\* Files of intact records: the library hands every record over.
NextIntact ==
    \/ RecordYield
    \/ RecordNone
    \/ RecordExc
    \/ ReaderEnd
    \/ LoopBody
    \/ Output
    \/ CountLevel
    \/ Summary

\* Corrupted files, no filter.
Spec == Init /\ [][Next]_vars

\* Intact files, every combination of filters.
SpecFilter == InitFilter /\ [][NextIntact]_vars

\* One intact record, its fields drawn widely.
SpecField == InitField /\ [][NextIntact]_vars

\* ------------------------------------------------------------- properties
Sources == [i \in 1..Len(stream) |-> stream[i].rec]

Yielded(r) == \E i \in 1..Len(stream) : stream[i].rec = r

HandedOver(t) == t.outcome # "cut"

Ended == pc \in {"output", "counting", "done"}

SameChunk(i, j) == i <= j /\ \A m \in (i + 1)..j : ~file[m].newchunk

\* C1: a record whose decoding fails (record.xml() or parse_event_xml raises)
\* is the only one dropped: it is not yielded, every record handed over after
\* it that decodes to an event is yielded, the yielded events keep the order
\* of their records, and the stream ends only when all records are consumed.
C1_FailedRecordOnlyDropped ==
    /\ \A i \in 1..Len(trace) :
          trace[i].outcome = "exc" =>
              /\ ~Yielded(trace[i].rec)
              /\ \A j \in (i + 1)..Len(trace) :
                    (HandedOver(trace[j]) /\ Decode(file[trace[j].rec]).tag = "event")
                        => Yielded(trace[j].rec)
    /\ \A a, b \in 1..Len(stream) : a < b => stream[a].rec < stream[b].rec
    /\ Ended => Len(trace) = Len(file)

C1_Witness ==
    /\ pc = "done"
    /\ \E i, j \in 1..Len(trace) :
          /\ i < j
          /\ trace[i].outcome = "exc"
          /\ file[trace[i].rec].xml.kind = "doc"
          /\ trace[j].outcome = "yield"
          /\ Yielded(trace[j].rec)

\* C2: once the file is open the stream never aborts: no failure of the
\* records iterator or of a record's decoding reaches the caller.
C2_StreamNeverAborts == pc # "crashed"

C4_NoSystemIsNone ==
    /\ \A i \in 1..Len(trace) :
          LET x == file[trace[i].rec].xml
          IN  (HandedOver(trace[i])
               /\ (x.kind = "malformed" \/ (x.kind = "doc" /\ ~x.system)))
                 => trace[i].outcome = "none"
    /\ \A i \in 1..Len(stream) :
          /\ file[stream[i].rec].xml.kind = "doc"
          /\ file[stream[i].rec].xml.system
    /\ \A i \in 1..Len(trace) :
          (trace[i].outcome = "none" /\ i = Len(trace)) => pc \in {"pull", "crashed"} \/ Ended

C4_Witness ==
    \E i, j, m \in 1..Len(trace) :
        /\ i < j /\ m # i
        /\ trace[i].outcome = "none"
        /\ ~file[trace[i].rec].xml.system
        /\ trace[m].outcome = "none"
        /\ file[trace[m].rec].xml.kind = "malformed"
        /\ trace[j].outcome = "yield"

\* C5: level number 1 is critical, 2 error, 3 warning, 0 and 4 info, every
\* other number info; an absent Level element is info; every yielded level
\* is one of the four names.
ExpectedLevel(n) ==
    CASE n = 1 -> "critical"
      [] n = 2 -> "error"
      [] n = 3 -> "warning"
      [] n = 0 \/ n = 4 -> "info"
      [] OTHER -> "info"

C5_LevelMapping ==
    \A i \in 1..Len(stream) :
        LET x == file[stream[i].rec].xml
        IN  /\ \A n \in LevelNums :
                  x.level = Elem(IntStr(n)) => stream[i].event.level = ExpectedLevel(n)
            /\ ~x.level.present => stream[i].event.level = "info"
            /\ stream[i].event.level \in LevelNames

C5_Witness ==
    /\ \E i \in 1..Len(stream) :
          /\ file[stream[i].rec].xml.level = Elem(IntStr(99))
          /\ stream[i].event.level = "info"
    /\ pc = "done"

\* C6: the message is the " | " join of the Data texts in document order cut
\* to 200 characters: at most 200 long, exactly 200 when the join is longer,
\* the whole join otherwise, empty when EventData is absent.
RECURSIVE JoinedTexts(_)
JoinedTexts(texts) ==
    IF texts = <<>> THEN <<>>
    ELSE IF Len(texts) = 1 THEN texts[1]
    ELSE JoinedTexts(SubSeq(texts, 1, Len(texts) - 1))
         \o <<" ", "|", " ">> \o texts[Len(texts)]

C6_MessageTruncation ==
    \A i \in 1..Len(stream) :
        LET x == file[stream[i].rec].xml
            m == stream[i].event.message
            j == JoinedTexts(SelectSeq(x.data, LAMBDA t : Len(t) > 0))
        IN  /\ Len(m) <= 200
            /\ x.hasdata /\ Len(j) > 200 => Len(m) = 200 /\ m = SubSeq(j, 1, 200)
            /\ x.hasdata /\ Len(j) <= 200 => m = j
            /\ ~x.hasdata => m = <<>>

C6_Witness ==
    \E i \in 1..Len(stream) :
        LET x == file[stream[i].rec].xml
        IN  /\ x.hasdata
            /\ Len(x.data) >= 2
            /\ Len(JoinedTexts(x.data)) = 201
            /\ Len(stream[i].event.message) = 200

\* C7: an event is kept iff its level equals the requested level (when a
\* level is requested) and its event_id equals the requested event id (when
\* one is requested, 0 included).
MatchesRequest(e) ==
    /\ args.level # "None" => e.level = args.level
    /\ args.event_id.given => e.event_id = args.event_id.val

C7_FilterByEquality ==
    Ended =>
        filtered_events =
            SelectSeq([i \in 1..Len(stream) |-> stream[i].event], MatchesRequest)

\* C8: for a valid file (every record intact, decoding, with a System
\* subtree) the number of events, and the count main reports, is the number
\* of records: none dropped, none duplicated.
Numeral(t) ==
    /\ Len(t) > 0
    /\ \A i \in 1..Len(t) :
          t[i] \in {"0", "1", "2", "3", "4", "5", "6", "7", "8", "9"}

ValidFile ==
    \A i \in 1..Len(file) :
        /\ file[i].intact
        /\ file[i].xml.kind = "doc"
        /\ file[i].xml.system
        /\ file[i].xml.eventid.present => Numeral(file[i].xml.eventid.text)
        /\ file[i].xml.level.present => Numeral(file[i].xml.level.text)

C8_CountEqualsRecords ==
    (ValidFile /\ pc = "done") =>
        /\ Len(stream) = Len(file)
        /\ \A i \in 1..Len(stream) : stream[i].rec = i
        /\ count = Len(file)
        /\ total.line[Len(total.line)] = Len(file)

C8_Witness ==
    /\ ValidFile
    /\ pc = "done"
    /\ Len(file) >= 2
    /\ count = Len(file)
    /\ args.level # "None"
    /\ shown < count

\* C10: between iterations of the filter loop and afterwards, shown is the
\* length of filtered_events, shown <= count, count is the number of events
\* pulled; with no filter shown = count; the final per-level counts sum to
\* shown and list only levels counted at least once.
CountOf(l) == DictGet(level_counts, l, 0)

C10_LoopCounters ==
    /\ pc # "body" =>
          /\ shown = Len(filtered_events)
          /\ shown <= count
          /\ count = Len(stream)
          /\ (args.level = "None" /\ ~args.event_id.given) => shown = count
    /\ pc = "body" => count = Len(stream) - 1 /\ shown = Len(filtered_events)
    /\ pc = "done" =>
          /\ CountOf("critical") + CountOf("error") + CountOf("warning")
                + CountOf("info") = shown
          /\ DOMAIN level_counts \subseteq LevelNames
          /\ \A l \in DOMAIN level_counts : level_counts[l] >= 1

C10_Witness ==
    /\ pc = "done"
    /\ 2 <= shown
    /\ shown < count
    /\ Cardinality(DOMAIN level_counts) >= 2

====
